---- MODULE Spec2Model ----
(***************************************************************************)
(* Model of the proctree session (src/proctree.go) and its Process nodes   *)
(* (src/unnamed/part_000) and configuration (src/unnamed/part_002).        *)
(*                                                                         *)
(* Process objects are identified by object ids 1, 2, ... allocated in     *)
(* creation order; 0 stands for a nil *Process.  The enumeration returned  *)
(* by gops.Processes() is a function pid -> ppid.                          *)
(*                                                                         *)
(* Recursive traversals are computed with the set of objects on the        *)
(* current call path: the traversed lists do not change during a walk, so  *)
(* a call that reaches an object already on its own call path repeats      *)
(* forever (stack overflow or endless loop).  Such a result carries        *)
(* ok = FALSE.                                                             *)
(***************************************************************************)
EXTENDS Integers, Sequences, FiniteSets, TLC

\* Bounds of the model.
MaxObj == 5
MaxUpdates == 1
MaxUpdatesDyn == 2
MaxProcs == 3
NumPids == 3
MaxOpts == 2
MaxConfigs == 2
MaxOptsOrd == 3

\* const kthreadPid = 2
kthreadPid == 2

Nil == 0

VARIABLES
    cfg,               \* *Config of the session
    phase,             \* "none" (before New), "ready", "failed" (New returned error), "diverged"
    pidMap,            \* pt.pidMap : pid -> object id
    procs,             \* fields of every Process object, by object id
    nextObj,           \* next free object id
    absProcs,          \* pt.absProcs
    absRootProcs,      \* pt.absRootProcs
    cfgRootProcs,      \* pt.cfgRootProcs (valid when cfgRootsSet)
    cfgRootsSet,       \* pt.cfgRootProcs != nil
    includedProcs,     \* pt.includedProcs
    includedRootProcs, \* pt.includedRootProcs
    lastEnum,          \* enumeration of the last successful update
    lastPrune,         \* pruneTombstones of the last successful update
    lastTombs,         \* history: the nodes of pt.pidMap already marked tombstone
                       \* when the last successful update began that it removed
                       \* from pt.pidMap (while Update holds the mutex in SpecLock:
                       \* the nodes marked tombstone before its tombstone loop)
    lastResult,        \* result of the last New/Update call
    nUpdates,          \* number of Update calls after New
    lockOwner,         \* holder of pt's mutex: "none", "update" or "walker"
    raceRead,          \* a node field was read without the mutex while Update held it
    walkerPc,          \* position of a concurrent WalkSubtree/WalkAncestry: "idle",
                       \* "handlerS", "children", "ancRead" or "handlerA"
    updTombstoned,     \* Update holding the mutex has run its tombstone loop (lines 95-100)
    preView,           \* the observable state when Update took the mutex
    lastQuery,         \* what the last locked query observed
    configs,           \* *Config objects built by NewConfig/Refine, by object id
    cfgOp              \* the last NewConfig/Refine call: kind, source object, options

vars == <<cfg, phase, pidMap, procs, nextObj, absProcs, absRootProcs,
          cfgRootProcs, cfgRootsSet, includedProcs, includedRootProcs,
          lastEnum, lastPrune, lastTombs, lastResult, nUpdates, lockOwner, raceRead, walkerPc,
          updTombstoned, preView, lastQuery, configs, cfgOp>>

lockVars == <<lockOwner, raceRead, walkerPc, updTombstoned, preView, lastQuery>>

configVars == <<configs, cfgOp>>

Range(f) == {f[x] : x \in DOMAIN f}

\* The value of f, evaluated once (comparing a function value makes TLC
\* tabulate it).
Force(f) == IF f = f THEN f ELSE f

RECURSIVE ConcatSeqs(_)
ConcatSeqs(ss) == IF ss = <<>> THEN <<>> ELSE Head(ss) \o ConcatSeqs(Tail(ss))

(***************************************************************************)
(* Config                                                                  *)
(***************************************************************************)
defaultIncludeKernelThreads == FALSE
defaultIncludeRootAncestors == FALSE

DefaultConfig == [includeKernelThreads |-> defaultIncludeKernelThreads,
                  includeRootAncestors |-> defaultIncludeRootAncestors,
                  rootPids |-> <<>>]

\* A ConfigOption: the With* function that built it (k) and its argument
\* (pid for WithRootPid, other for WithConfig).
Opt(k, pid, other) == [k |-> k, pid |-> pid, other |-> other]

\* WithConfig(other)
WithConfigOpt(other) == Opt("WithConfig", 0, other)

\* Mutant of ApplyOption: WithoutRootPid also restores the boolean
\* defaults.
ApplyOption_clearAll(c, o) ==
    CASE o.k = "WithKernelThreads" -> [c EXCEPT !.includeKernelThreads = TRUE]
      [] o.k = "WithoutKernelThreads" -> [c EXCEPT !.includeKernelThreads = FALSE]
      [] o.k = "WithRootAncestors" -> [c EXCEPT !.includeRootAncestors = TRUE]
      [] o.k = "WithoutRootAncestors" -> [c EXCEPT !.includeRootAncestors = FALSE]
      [] o.k = "WithRootPid" -> [c EXCEPT !.rootPids = Append(@, o.pid)]
      [] o.k = "WithoutRootPid" -> DefaultConfig
      [] o.k = "WithConfig" -> [includeKernelThreads |-> o.other.includeKernelThreads,
                                includeRootAncestors |-> o.other.includeRootAncestors,
                                rootPids |-> o.other.rootPids]

\* opt(cfg) for each option of part_002 lines 48-110.
ApplyOption(c, o) ==
    CASE o.k = "WithKernelThreads" -> [c EXCEPT !.includeKernelThreads = TRUE]
      [] o.k = "WithoutKernelThreads" -> [c EXCEPT !.includeKernelThreads = FALSE]
      [] o.k = "WithRootAncestors" -> [c EXCEPT !.includeRootAncestors = TRUE]
      [] o.k = "WithoutRootAncestors" -> [c EXCEPT !.includeRootAncestors = FALSE]
      [] o.k = "WithRootPid" -> [c EXCEPT !.rootPids = Append(@, o.pid)]
      [] o.k = "WithoutRootPid" -> [c EXCEPT !.rootPids = <<>>]
      [] o.k = "WithConfig" -> [includeKernelThreads |-> o.other.includeKernelThreads,
                                includeRootAncestors |-> o.other.includeRootAncestors,
                                rootPids |-> o.other.rootPids]

\* The loop of NewConfig over opts, from the i-th option.
RECURSIVE ApplyOptions(_, _, _)
ApplyOptions(c, opts, i) ==
    IF i > Len(opts) THEN c ELSE ApplyOptions(ApplyOption(c, opts[i]), opts, i + 1)

\* NewConfig(opts...)
NewConfig(opts) == ApplyOptions(DefaultConfig, opts, 1)

\* Mutant of Refine: the original's values are not used.
Refine_noSeed(c, opts) == NewConfig(opts)

\* (*Config).Refine(opts...)
Refine(c, opts) == NewConfig(<<WithConfigOpt(c)>> \o opts)

(***************************************************************************)
(* Process                                                                 *)
(***************************************************************************)
\* Zero value of a Process.
NoProc == [pid |-> 0, ppid |-> 0, isTombstone |-> FALSE, parentProc |-> Nil,
           origParentProc |-> Nil, absChildProcs |-> <<>>,
           includedChildProcs |-> <<>>, isIncluded |-> TRUE]

\* newProcess(pt, gopsProc); gopsProcess is (pid, ppid)
newProcess(pid, ppid) == [NoProc EXCEPT !.pid = pid, !.ppid = ppid]

\* ProcTree.lockedSortProcessesByPid applied to a list of distinct pids,
\* given as the set of its elements.
lockedSortProcessesByPid(P, S) ==
    [i \in 1..Cardinality(S) |->
        CHOOSE o \in S : Cardinality({q \in S : P[q].pid < P[o].pid}) = i - 1]

\* Mutant of lockedParent: a self-parent is returned as the parent.
lockedParent_noSelf(P, o) ==
    IF P[o].parentProc = Nil \/ ~P[P[o].parentProc].isIncluded
    THEN Nil ELSE P[o].parentProc

\* Process.lockedParent
lockedParent(P, o) ==
    IF P[o].parentProc = Nil \/ P[o].parentProc = o \/ ~P[P[o].parentProc].isIncluded
    THEN Nil ELSE P[o].parentProc

\* Process.lockedWalkFullSubtree: set of visited objects
RECURSIVE lockedWalkFullSubtree(_, _, _)
lockedWalkFullSubtree(P, o, path) ==
    IF o \in path THEN [ok |-> FALSE, seen |-> {}]
    ELSE LET ch == P[o].absChildProcs
             rs == Force([i \in 1..Len(ch) |-> lockedWalkFullSubtree(P, ch[i], path \cup {o})])
         IN [ok |-> \A i \in 1..Len(ch) : rs[i].ok,
             seen |-> {o} \cup UNION {rs[i].seen : i \in 1..Len(ch)}]

\* ProcTree.lockedFullWalkFromRoots
lockedFullWalkFromRoots(P, roots) ==
    LET rs == Force([i \in 1..Len(roots) |-> lockedWalkFullSubtree(P, roots[i], {})])
    IN [ok |-> \A i \in 1..Len(roots) : rs[i].ok,
        seen |-> UNION {rs[i].seen : i \in 1..Len(roots)}]

\* Process.lockedWalkFullAncestry: set of visited objects
RECURSIVE lockedWalkFullAncestry(_, _, _)
lockedWalkFullAncestry(P, o, path) ==
    IF o \in path THEN [ok |-> FALSE, seen |-> {}]
    ELSE LET parent == P[o].parentProc
         IN IF parent # Nil /\ parent # o
            THEN LET r == lockedWalkFullAncestry(P, parent, path \cup {o})
                 IN [ok |-> r.ok, seen |-> {o} \cup r.seen]
            ELSE [ok |-> TRUE, seen |-> {o}]

(***************************************************************************)
(* ProcTree.lockedUpdate, stage by stage.  S is the session record.        *)
(***************************************************************************)
\* Object o is the value of pidMap for its own pid.
InMap(P, M, o) == P[o].pid \in DOMAIN M /\ M[P[o].pid] = o

\* Mutant of MarkTombstones: the tombstone flag is not set.
MarkTombstones_noFlag(P, M) ==
    [o \in DOMAIN P |->
        IF InMap(P, M, o)
        THEN [P[o] EXCEPT !.absChildProcs = <<>>, !.includedChildProcs = <<>>]
        ELSE P[o]]

\* Lines 95-100: tombstone every known process and clear its child lists.
MarkTombstones(P, M) ==
    [o \in DOMAIN P |->
        IF InMap(P, M, o)
        THEN [P[o] EXCEPT !.isTombstone = TRUE, !.absChildProcs = <<>>,
                          !.includedChildProcs = <<>>]
        ELSE P[o]]

\* Line 106: records kept by the kernel-thread filter.
Admitted(C, E) ==
    {p \in DOMAIN E : C.includeKernelThreads \/ (p # 2 /\ E[p] # 2)}

\* Pids of the records that get a new Process (line 114).
NewPids(C, E, M) == Admitted(C, E) \ DOMAIN M

\* Pid of the k-th new Process created (k = 0, 1, ...).
NthNewPid(NP, k) == CHOOSE p \in NP : Cardinality({q \in NP : q < p}) = k

\* Lines 102-119: refresh rediscovered processes, create new ones.  New
\* objects get ids n, n+1, ... in pid order.
ReconcileProcs(P, M, n, C, E, fixedRoots) ==
    LET NP == NewPids(C, E, M)
        A == Admitted(C, E)
    IN [o \in 1..(n + Cardinality(NP) - 1) |->
          IF o < n
          THEN IF InMap(P, M, o) /\ P[o].pid \in A
               THEN [P[o] EXCEPT !.ppid = E[P[o].pid], !.isTombstone = FALSE]
               ELSE P[o]
          ELSE LET p == NthNewPid(NP, o - n)
               IN [newProcess(p, E[p]) EXCEPT !.isIncluded = ~fixedRoots]]

ReconcileMap(M, n, C, E) ==
    LET NP == NewPids(C, E, M)
    IN [p \in DOMAIN M \cup NP |->
          IF p \in DOMAIN M THEN M[p] ELSE n + Cardinality({q \in NP : q < p})]

\* Mutant of PruneMap: the tombstone test is inverted.
PruneMap_inverted(P, M, pruneTombstones) ==
    IF pruneTombstones
    THEN [p \in {q \in DOMAIN M : P[M[q]].isTombstone} |-> M[p]]
    ELSE M

\* Lines 121-128
PruneMap(P, M, pruneTombstones) ==
    IF pruneTombstones
    THEN [p \in {q \in DOMAIN M : ~P[M[q]].isTombstone} |-> M[p]]
    ELSE M

\* Mutant of ResolvedParent: the lookup uses the pid instead of the ppid.
ResolvedParent_ownPid(P, M, o) ==
    LET ppid == P[o].pid
    IN IF ppid # 0 /\ ppid \in DOMAIN M THEN M[ppid] ELSE Nil

\* Lines 152-160: the parent object resolved from the recorded ppid.
ResolvedParent(P, M, o) ==
    LET ppid == P[o].ppid
    IN IF ppid # 0 /\ ppid \in DOMAIN M THEN M[ppid] ELSE Nil

\* Mutant of StickyOrig: every resolved parent overwrites origParentProc.
StickyOrig_overwrite(orig, pproc) == IF pproc # Nil THEN pproc ELSE orig

\* Lines 164-166: origParentProc is set from the resolved parent when unset.
StickyOrig(orig, pproc) == IF pproc # Nil /\ orig = Nil THEN pproc ELSE orig

\* Mutant of AbsStructure: parentProc is only assigned together with the
\* first origParentProc.
AbsStructure_firstOnly(P, M) ==
    LET nodes == Range(M)
        pp == Force([o \in nodes |-> ResolvedParent(P, M, o)])
    IN [o \in DOMAIN P |->
          IF InMap(P, M, o)
          THEN [P[o] EXCEPT
                  !.absChildProcs = lockedSortProcessesByPid(P, {c \in nodes : pp[c] = o}),
                  !.parentProc = IF pp[o] # Nil /\ P[o].origParentProc = Nil THEN pp[o] ELSE @,
                  !.origParentProc = StickyOrig(@, pp[o])]
          ELSE P[o]]

\* Lines 144-177: absolute structure.
AbsStructure(P, M) ==
    LET nodes == Range(M)
        pp == Force([o \in nodes |-> ResolvedParent(P, M, o)])
    IN [o \in DOMAIN P |->
          IF InMap(P, M, o)
          THEN [P[o] EXCEPT
                  !.absChildProcs = lockedSortProcessesByPid(P, {c \in nodes : pp[c] = o}),
                  !.parentProc = IF pp[o] # Nil THEN pp[o] ELSE @,
                  !.origParentProc = StickyOrig(@, pp[o])]
          ELSE P[o]]

\* Mutant of Inclusion: the kernel-thread subtree is excluded even when
\* kernel threads are included.
Inclusion_kernelAlways(P, M, C, cfgRoots) ==
    LET fixedRoots == Len(C.rootPids) > 0
        W == IF fixedRoots THEN lockedFullWalkFromRoots(P, cfgRoots)
             ELSE [ok |-> TRUE, seen |-> Range(M)]
        As == Force([i \in 1..Len(cfgRoots) |-> lockedWalkFullAncestry(P, cfgRoots[i], {})])
        A == IF fixedRoots /\ C.includeRootAncestors
             THEN [ok |-> \A i \in 1..Len(cfgRoots) : As[i].ok,
                   seen |-> UNION {As[i].seen : i \in 1..Len(cfgRoots)}]
             ELSE [ok |-> TRUE, seen |-> {}]
        P1 == Force([o \in DOMAIN P |->
                 IF o \in W.seen \cup A.seen THEN [P[o] EXCEPT !.isIncluded = TRUE] ELSE P[o]])
        K == IF kthreadPid \in DOMAIN M
             THEN lockedWalkFullSubtree(P1, M[kthreadPid], {})
             ELSE [ok |-> TRUE, seen |-> {}]
        P2 == Force([o \in DOMAIN P1 |->
                 IF o \in K.seen THEN [P1[o] EXCEPT !.isIncluded = FALSE] ELSE P1[o]])
    IN [ok |-> W.ok /\ A.ok /\ K.ok, procs |-> P2]

\* Lines 179-225: the set of objects marked included resp. excluded.
Inclusion(P, M, C, cfgRoots) ==
    LET fixedRoots == Len(C.rootPids) > 0
        W == IF fixedRoots THEN lockedFullWalkFromRoots(P, cfgRoots)
             ELSE [ok |-> TRUE, seen |-> Range(M)]
        As == Force([i \in 1..Len(cfgRoots) |-> lockedWalkFullAncestry(P, cfgRoots[i], {})])
        A == IF fixedRoots /\ C.includeRootAncestors
             THEN [ok |-> \A i \in 1..Len(cfgRoots) : As[i].ok,
                   seen |-> UNION {As[i].seen : i \in 1..Len(cfgRoots)}]
             ELSE [ok |-> TRUE, seen |-> {}]
        P1 == Force([o \in DOMAIN P |->
                 IF o \in W.seen \cup A.seen THEN [P[o] EXCEPT !.isIncluded = TRUE] ELSE P[o]])
        K == IF ~C.includeKernelThreads /\ kthreadPid \in DOMAIN M
             THEN lockedWalkFullSubtree(P1, M[kthreadPid], {})
             ELSE [ok |-> TRUE, seen |-> {}]
        P2 == Force([o \in DOMAIN P1 |->
                 IF o \in K.seen THEN [P1[o] EXCEPT !.isIncluded = FALSE] ELSE P1[o]])
    IN [ok |-> W.ok /\ A.ok /\ K.ok, procs |-> P2]

\* Mutant of IncludedStructure: tombstones are left out of includedProcs.
IncludedStructure_liveOnly(P, M) ==
    LET nodes == Range(M)
        incl == {o \in nodes : P[o].isIncluded}
        inclSorted == lockedSortProcessesByPid(P, {o \in incl : ~P[o].isTombstone})
        appended(q) == SelectSeq(inclSorted, LAMBDA c : P[c].parentProc = q)
    IN [procs |->
          [q \in DOMAIN P |->
             IF InMap(P, M, q)
             THEN [P[q] EXCEPT !.includedChildProcs =
                     lockedSortProcessesByPid(P, {c \in incl : P[c].parentProc = q})]
             ELSE [P[q] EXCEPT !.includedChildProcs = @ \o appended(q)]],
        includedProcs |-> inclSorted,
        includedRootProcs |->
          lockedSortProcessesByPid(P,
             {o \in incl : P[o].parentProc = Nil \/ P[o].parentProc = o
                           \/ ~P[P[o].parentProc].isIncluded})]

\* Lines 227-250: included structure.  Objects in the map had their
\* included child lists cleared at line 99 and get them sorted at line 249;
\* any other object keeps its list and gets the appends in absProcs order.
IncludedStructure(P, M) ==
    LET nodes == Range(M)
        incl == {o \in nodes : P[o].isIncluded}
        inclSorted == lockedSortProcessesByPid(P, incl)
        appended(q) == SelectSeq(inclSorted, LAMBDA c : P[c].parentProc = q)
    IN [procs |->
          [q \in DOMAIN P |->
             IF InMap(P, M, q)
             THEN [P[q] EXCEPT !.includedChildProcs =
                     lockedSortProcessesByPid(P, {c \in incl : P[c].parentProc = q})]
             ELSE [P[q] EXCEPT !.includedChildProcs = @ \o appended(q)]],
        includedProcs |-> inclSorted,
        includedRootProcs |->
          lockedSortProcessesByPid(P,
             {o \in incl : P[o].parentProc = Nil \/ P[o].parentProc = o
                           \/ ~P[P[o].parentProc].isIncluded})]

\* ProcTree.lockedUpdate(pruneTombstones) after a successful gops.Processes()
\* returning E.  err is "ok", "rootErr" (line 138) or "diverged".
lockedUpdate(S, E, pruneTombstones) ==
    LET C == S.cfg
        fixedRoots == Len(C.rootPids) > 0
        P1 == Force(MarkTombstones(S.procs, S.pidMap))
        P2 == Force(ReconcileProcs(P1, S.pidMap, S.nextObj, C, E, fixedRoots))
        M2 == Force(ReconcileMap(S.pidMap, S.nextObj, C, E))
        n2 == S.nextObj + Cardinality(NewPids(C, E, S.pidMap))
        M3 == Force(PruneMap(P2, M2, pruneTombstones))
        resolve == fixedRoots /\ ~S.cfgRootsSet
        rootsFound == \A i \in 1..Len(C.rootPids) : C.rootPids[i] \in DOMAIN M3
        roots == IF resolve THEN [i \in 1..Len(C.rootPids) |-> M3[C.rootPids[i]]]
                 ELSE S.cfgRootProcs
        P3 == Force(AbsStructure(P2, M3))
        nodes == Range(M3)
        absRoots == {o \in nodes : ResolvedParent(P2, M3, o) = Nil}
        I == Inclusion(P3, M3, C, roots)
        R == IncludedStructure(I.procs, M3)
    IN IF resolve /\ ~rootsFound
       THEN [S EXCEPT !.procs = P2, !.pidMap = M3, !.nextObj = n2,
                      !.cfgRootProcs = <<>>, !.cfgRootsSet = FALSE, !.err = "rootErr"]
       ELSE IF ~I.ok
       THEN [S EXCEPT !.err = "diverged"]
       ELSE [S EXCEPT !.procs = R.procs, !.pidMap = M3, !.nextObj = n2,
                      !.cfgRootProcs = roots, !.cfgRootsSet = S.cfgRootsSet \/ fixedRoots,
                      !.absProcs = lockedSortProcessesByPid(P3, nodes),
                      !.absRootProcs = lockedSortProcessesByPid(P3, absRoots),
                      !.includedProcs = R.includedProcs,
                      !.includedRootProcs = R.includedRootProcs,
                      !.err = "ok"]

\* Objects needed by an update fit in the bound.
Fits(S, E) == S.nextObj + Cardinality(NewPids(S.cfg, E, S.pidMap)) <= MaxObj + 1

Session == [cfg |-> cfg, pidMap |-> pidMap, procs |-> procs, nextObj |-> nextObj,
            absProcs |-> absProcs, absRootProcs |-> absRootProcs,
            cfgRootProcs |-> cfgRootProcs, cfgRootsSet |-> cfgRootsSet,
            includedProcs |-> includedProcs, includedRootProcs |-> includedRootProcs,
            err |-> "ok"]

\* The session New builds before its first update (lines 48-56).
EmptySession(C) ==
    [cfg |-> C, pidMap |-> [p \in {} |-> Nil], procs |-> [o \in {} |-> NoProc],
     nextObj |-> 1, absProcs |-> <<>>, absRootProcs |-> <<>>,
     cfgRootProcs |-> <<>>, cfgRootsSet |-> FALSE,
     includedProcs |-> <<>>, includedRootProcs |-> <<>>, err |-> "ok"]

SetSession(R) ==
    /\ pidMap' = R.pidMap /\ procs' = R.procs /\ nextObj' = R.nextObj
    /\ absProcs' = R.absProcs /\ absRootProcs' = R.absRootProcs
    /\ cfgRootProcs' = R.cfgRootProcs /\ cfgRootsSet' = R.cfgRootsSet
    /\ includedProcs' = R.includedProcs /\ includedRootProcs' = R.includedRootProcs

(***************************************************************************)
(* Enumerations: gops.Processes() results over a pid universe U.           *)
(***************************************************************************)
Enums(U) == UNION {[D -> {0} \cup U] : D \in {D \in SUBSET U : Cardinality(D) <= MaxProcs}}

(***************************************************************************)
(* Actions                                                                 *)
(***************************************************************************)
\* The nodes of the map marked tombstone.
Tombstones == {o \in Range(pidMap) : procs[o].isTombstone}

\* Mutant of New: the session is returned even when the update failed on a
\* missing configured root.
New_keepSession(ES) ==
    /\ phase = "none"
    /\ \E E \in ES :
         \E R \in {lockedUpdate(EmptySession(cfg), E, FALSE)} :
            /\ SetSession(R)
            /\ phase' = IF R.err = "diverged" THEN "diverged" ELSE "ready"
            /\ lastEnum' = E
            /\ lastPrune' = FALSE
            /\ lastTombs' = {}
            /\ lastResult' = R.err
    /\ UNCHANGED <<cfg, nUpdates>>
    /\ UNCHANGED <<lockVars, configVars>>

\* New(opts...): Update(false) on an empty session; an error yields no session.
New(ES) ==
    /\ phase = "none"
    /\ \E E \in ES :
         \E R \in {lockedUpdate(EmptySession(cfg), E, FALSE)} :
            /\ SetSession(R)
            /\ phase' = IF R.err = "ok" THEN "ready"
                        ELSE IF R.err = "rootErr" THEN "failed" ELSE "diverged"
            /\ lastEnum' = E
            /\ lastPrune' = FALSE
            /\ lastTombs' = {}
            /\ lastResult' = R.err
    /\ UNCHANGED <<cfg, nUpdates>>
    /\ UNCHANGED <<lockVars, configVars>>

\* New when gops.Processes() fails (lines 90-93 under New).
NewEnumFail ==
    /\ phase = "none"
    /\ phase' = "failed"
    /\ lastResult' = "enumErr"
    /\ UNCHANGED <<cfg, pidMap, procs, nextObj, absProcs, absRootProcs, cfgRootProcs,
                   cfgRootsSet, includedProcs, includedRootProcs, lastEnum, lastPrune, lastTombs,
                   nUpdates>>
    /\ UNCHANGED <<lockVars, configVars>>

\* The body of ProcTree.Update(pruneTombstones), run under the mutex.
UpdateStep(ES, maxU) ==
    /\ phase = "ready"
    /\ nUpdates < maxU
    /\ \E E \in ES, pruneTombstones \in BOOLEAN :
         /\ lastEnum' = E
         /\ lastPrune' = pruneTombstones
         /\ Fits(Session, E)
         /\ \E R \in {lockedUpdate(Session, E, pruneTombstones)} :
            /\ SetSession(R)
            /\ lastTombs' = {o \in IF updTombstoned THEN lastTombs ELSE Tombstones :
                                o \notin Range(R.pidMap)}
            /\ phase' = IF R.err = "diverged" THEN "diverged" ELSE "ready"
            /\ lastResult' = R.err
    /\ nUpdates' = nUpdates + 1
    /\ UNCHANGED cfg

\* Mutant of UpdateEnumFailStep: the nodes are tombstoned before the enumeration
\* fails.
UpdateEnumFailStep_tombstoned(maxU) ==
    /\ phase = "ready"
    /\ nUpdates < maxU
    /\ lastResult' = "enumErr"
    /\ nUpdates' = nUpdates + 1
    /\ procs' = MarkTombstones(procs, pidMap)
    /\ UNCHANGED <<cfg, phase, pidMap, nextObj, absProcs, absRootProcs, cfgRootProcs,
                   cfgRootsSet, includedProcs, includedRootProcs, lastEnum, lastPrune,
                   lastTombs>>

\* The body of ProcTree.Update when gops.Processes() fails (lines 90-93).
UpdateEnumFailStep(maxU) ==
    /\ phase = "ready"
    /\ nUpdates < maxU
    /\ lastResult' = "enumErr"
    /\ nUpdates' = nUpdates + 1
    /\ UNCHANGED <<cfg, phase, pidMap, procs, nextObj, absProcs, absRootProcs, cfgRootProcs,
                   cfgRootsSet, includedProcs, includedRootProcs, lastEnum, lastPrune,
                   lastTombs>>

\* ProcTree.Update(pruneTombstones) with the mutex taken and released around
\* its body in one step.
Update(ES, maxU) == UpdateStep(ES, maxU) /\ UNCHANGED <<lockVars, configVars>>
UpdateEnumFail(maxU) == UpdateEnumFailStep(maxU) /\ UNCHANGED <<lockVars, configVars>>

(***************************************************************************)
(* Update and a concurrent WalkSubtree, step by step.                      *)
(***************************************************************************)
\* Session fields other than the mutex and the walker.
sessionVars == <<cfg, phase, pidMap, procs, nextObj, absProcs, absRootProcs, cfgRootProcs,
                 cfgRootsSet, includedProcs, includedRootProcs, lastEnum, lastPrune,
                 lastTombs, lastResult, nUpdates>>

\* What the locked queries read: PidProcess reads pidMap, Processes and
\* Roots the two lists, Children, Parent and Depth a node's child list,
\* parent link and inclusion flag.
View == <<pidMap, includedProcs, includedRootProcs,
          [o \in DOMAIN procs |-> <<procs[o].includedChildProcs, procs[o].parentProc,
                                   procs[o].isIncluded>>]>>

\* ProcTree.Update, line 258: pt.plock().
UpdateAcquire(maxU) ==
    /\ phase = "ready" /\ nUpdates < maxU
    /\ lockOwner = "none"
    /\ lockOwner' = "update"
    /\ preView' = View
    /\ UNCHANGED sessionVars
    /\ UNCHANGED <<raceRead, walkerPc, updTombstoned, lastQuery, configVars>>

\* ProcTree.lockedUpdate, lines 95-100, after gops.Processes() succeeded:
\* the known nodes are tombstoned and their child lists cleared in place.
UpdateTombstone ==
    /\ lockOwner = "update" /\ ~updTombstoned
    /\ updTombstoned' = TRUE
    /\ procs' = MarkTombstones(procs, pidMap)
    /\ lastTombs' = Tombstones
    /\ UNCHANGED <<cfg, phase, pidMap, nextObj, absProcs, absRootProcs, cfgRootProcs,
                   cfgRootsSet, includedProcs, includedRootProcs, lastEnum, lastPrune,
                   lastResult, nUpdates>>
    /\ UNCHANGED <<lockOwner, raceRead, walkerPc, preView, lastQuery, configVars>>

\* ProcTree.Update, lines 259-260: the rest of the body (the tombstone loop
\* is idempotent), or the enumeration error, then the deferred pt.punlock().
UpdateRelease(ES, maxU) ==
    /\ lockOwner = "update"
    /\ \/ updTombstoned /\ UpdateStep(ES, maxU)
       \/ ~updTombstoned /\ UpdateEnumFailStep(maxU)
    /\ lockOwner' = "none"
    /\ updTombstoned' = FALSE
    /\ UNCHANGED <<raceRead, walkerPc, preView, lastQuery, configVars>>

\* Mutant of LockedQuery: the query does not take the mutex.
LockedQuery_unlocked ==
    /\ phase = "ready"
    /\ lastQuery' = View
    /\ UNCHANGED sessionVars
    /\ UNCHANGED <<lockOwner, raceRead, walkerPc, updTombstoned, preView, configVars>>

\* Processes, Roots, PidProcess, Children, Parent, Depth: pt.plock(), read,
\* deferred pt.punlock().
LockedQuery ==
    /\ phase = "ready"
    /\ lockOwner = "none"
    /\ lastQuery' = View
    /\ UNCHANGED sessionVars
    /\ UNCHANGED <<lockOwner, raceRead, walkerPc, updTombstoned, preView, configVars>>

\* Process.WalkSubtree, line 174: p.isIncluded is read without the mutex
\* (an included node: the handler is called next).
WalkSubtreeReadIncluded ==
    /\ phase = "ready" /\ nextObj > 1
    /\ walkerPc = "idle"
    /\ raceRead' = (raceRead \/ lockOwner = "update")
    /\ walkerPc' = "handlerS"
    /\ UNCHANGED sessionVars
    /\ UNCHANGED <<lockOwner, updTombstoned, preView, lastQuery, configVars>>

\* The handler h(p) (WalkSubtree line 175, WalkAncestry line 231) calling a
\* public operation, which takes and releases pt's mutex.
HandlerCall ==
    /\ walkerPc \in {"handlerS", "handlerA"}
    /\ lockOwner = "none"
    /\ walkerPc' = IF walkerPc = "handlerS" THEN "children" ELSE "idle"
    /\ UNCHANGED sessionVars
    /\ UNCHANGED <<lockOwner, raceRead, updTombstoned, preView, lastQuery, configVars>>

\* Process.WalkSubtree, line 178: p.Children() takes and releases the mutex.
WalkSubtreeChildren ==
    /\ walkerPc = "children"
    /\ lockOwner = "none"
    /\ walkerPc' = "idle"
    /\ UNCHANGED sessionVars
    /\ UNCHANGED <<lockOwner, raceRead, updTombstoned, preView, lastQuery, configVars>>

\* Process.WalkAncestry, line 226: p.plock().
WalkAncestryLock ==
    /\ phase = "ready" /\ nextObj > 1
    /\ walkerPc = "idle"
    /\ lockOwner = "none"
    /\ lockOwner' = "walker"
    /\ walkerPc' = "ancRead"
    /\ UNCHANGED sessionVars
    /\ UNCHANGED <<raceRead, updTombstoned, preView, lastQuery, configVars>>

\* Mutant of WalkAncestryUnlock: the handler is called before the mutex is
\* released.
WalkAncestryUnlock_late ==
    /\ walkerPc = "ancRead"
    /\ walkerPc' = "handlerA"
    /\ UNCHANGED sessionVars
    /\ UNCHANGED <<lockOwner, raceRead, updTombstoned, preView, lastQuery, configVars>>

\* Process.WalkAncestry, lines 227-229: isIncluded and parentProc are read,
\* then p.punlock() (an included node: the handler is called next).
WalkAncestryUnlock ==
    /\ walkerPc = "ancRead"
    /\ lockOwner' = "none"
    /\ walkerPc' = "handlerA"
    /\ UNCHANGED sessionVars
    /\ UNCHANGED <<raceRead, updTombstoned, preView, lastQuery, configVars>>

(***************************************************************************)
(* Building configurations                                                 *)
(***************************************************************************)
\* x := NewConfig(opts...)
NewConfigOp(OS, maxC) ==
    /\ Len(configs) < maxC
    /\ \E opts \in OS :
         /\ configs' = Append(configs, NewConfig(opts))
         /\ cfgOp' = [kind |-> "NewConfig", src |-> 0, opts |-> opts]
    /\ UNCHANGED <<sessionVars, lockVars>>

\* x := configs[i].Refine(opts...)
RefineOp(OS, maxC) ==
    /\ Len(configs) < maxC
    /\ \E i \in 1..Len(configs), opts \in OS :
         /\ configs' = Append(configs, Refine(configs[i], opts))
         /\ cfgOp' = [kind |-> "Refine", src |-> i, opts |-> opts]
    /\ UNCHANGED <<sessionVars, lockVars>>

InitFor(Cfgs) ==
    /\ cfg \in Cfgs
    /\ phase = "none"
    /\ pidMap = [p \in {} |-> Nil]
    /\ procs = [o \in {} |-> NoProc]
    /\ nextObj = 1
    /\ absProcs = <<>> /\ absRootProcs = <<>>
    /\ cfgRootProcs = <<>> /\ cfgRootsSet = FALSE
    /\ includedProcs = <<>> /\ includedRootProcs = <<>>
    /\ lastEnum = [p \in {} |-> 0]
    /\ lastPrune = FALSE
    /\ lastTombs = {}
    /\ lastResult = "none"
    /\ nUpdates = 0
    /\ lockOwner = "none"
    /\ raceRead = FALSE
    /\ walkerPc = "idle"
    /\ updTombstoned = FALSE
    /\ preView = <<>>
    /\ lastQuery = <<>>
    /\ configs = <<>>
    /\ cfgOp = [kind |-> "none", src |-> 0, opts |-> <<>>]

NextFor(ES, maxU) == New(ES) \/ NewEnumFail \/ Update(ES, maxU) \/ UpdateEnumFail(maxU)

(***************************************************************************)
(* Queries (read-only public operations) on the current state              *)
(***************************************************************************)
\* ProcTree.PidProcess
PidProcess(p) == IF p \in DOMAIN pidMap THEN pidMap[p] ELSE Nil

\* ProcTree.Processes / ProcTree.Roots
Processes == includedProcs
Roots == includedRootProcs

\* Process.Parent / Process.Children / Process.OrigParent
Parent(o) == lockedParent(procs, o)
Children(o) == procs[o].includedChildProcs
OrigParent(o) == procs[o].origParentProc

\* Objects handed out so far.
Allocated == 1..(nextObj - 1)

\* Process.lockedIsDescendantOf; path = objects whose call is on the stack.
RECURSIVE lockedIsDescendantOf(_, _, _, _)
lockedIsDescendantOf(P, o, ancestor, path) ==
    LET parent == P[o].parentProc
    IN IF o \in path THEN [ok |-> FALSE, val |-> FALSE]
       ELSE IF ~(parent # Nil /\ ancestor # Nil) THEN [ok |-> TRUE, val |-> FALSE]
       ELSE IF parent = ancestor THEN [ok |-> TRUE, val |-> TRUE]
       ELSE lockedIsDescendantOf(P, parent, ancestor, path \cup {o})

\* Process.IsDescendantOf / Process.IsAncestorOf
IsDescendantOf(o, a) == lockedIsDescendantOf(procs, o, a, {})
IsAncestorOf(o, d) ==
    IF d = Nil THEN [ok |-> TRUE, val |-> FALSE] ELSE lockedIsDescendantOf(procs, d, o, {})

RECURSIVE lockedDepthLoop(_, _, _, _)

\* Mutant of lockedDepthLoop: excluded parents are counted too.
lockedDepthLoop_noInclCheck(P, proc, result, seen) ==
    IF proc \in seen THEN [ok |-> FALSE, val |-> result]
    ELSE IF P[proc].parentProc # Nil /\ P[proc].parentProc # proc
    THEN lockedDepthLoop(P, P[proc].parentProc, result + 1, seen \cup {proc})
    ELSE [ok |-> TRUE, val |-> result]

\* Process.lockedDepth: the loop; seen = objects the loop variable held.
lockedDepthLoop(P, proc, result, seen) ==
    IF proc \in seen THEN [ok |-> FALSE, val |-> result]
    ELSE IF P[proc].parentProc # Nil /\ P[proc].parentProc # proc
            /\ P[P[proc].parentProc].isIncluded
    THEN lockedDepthLoop(P, P[proc].parentProc, result + 1, seen \cup {proc})
    ELSE [ok |-> TRUE, val |-> result]

\* Process.Depth
Depth(o) == lockedDepthLoop(procs, o, 0, {})

\* Process.WalkSubtree: the sequence of handler invocations.
RECURSIVE WalkSubtreeR(_, _, _)
\* Mutant of WalkSubtreeR: an excluded node's children are still walked.
WalkSubtreeR_noInclCheck(P, o, path) ==
    IF o \in path THEN [ok |-> FALSE, seq |-> <<>>]
    ELSE LET ch == IF P[o].isIncluded THEN P[o].includedChildProcs ELSE P[o].absChildProcs
             rs == Force([i \in 1..Len(ch) |-> WalkSubtreeR(P, ch[i], path \cup {o})])
         IN [ok |-> \A i \in 1..Len(ch) : rs[i].ok,
             seq |-> (IF P[o].isIncluded THEN <<o>> ELSE <<>>)
                     \o ConcatSeqs([i \in 1..Len(ch) |-> rs[i].seq])]

\* Process.WalkSubtree, recursively.
WalkSubtreeR(P, o, path) ==
    IF ~P[o].isIncluded THEN [ok |-> TRUE, seq |-> <<>>]
    ELSE IF o \in path THEN [ok |-> FALSE, seq |-> <<>>]
    ELSE LET ch == P[o].includedChildProcs
             rs == Force([i \in 1..Len(ch) |-> WalkSubtreeR(P, ch[i], path \cup {o})])
         IN [ok |-> \A i \in 1..Len(ch) : rs[i].ok,
             seq |-> <<o>> \o ConcatSeqs([i \in 1..Len(ch) |-> rs[i].seq])]

WalkSubtree(o) == WalkSubtreeR(procs, o, {})

\* ProcTree.WalkFromRoots
WalkFromRoots(roots) ==
    LET rs == Force([i \in 1..Len(roots) |-> WalkSubtree(roots[i])])
    IN [ok |-> \A i \in 1..Len(roots) : rs[i].ok,
        seq |-> ConcatSeqs([i \in 1..Len(roots) |-> rs[i].seq])]

\* ProcTree.Walk
Walk == WalkFromRoots(Roots)

\* Process.WalkAncestry: the sequence of handler invocations.
RECURSIVE WalkAncestryR(_, _, _)
\* Mutant of WalkAncestryR: the climb stops at an excluded node.
WalkAncestryR_stopAtExcluded(P, o, path) ==
    IF o \in path THEN [ok |-> FALSE, seq |-> <<>>]
    ELSE IF ~P[o].isIncluded THEN [ok |-> TRUE, seq |-> <<>>]
    ELSE LET parent == P[o].parentProc
         IN IF parent # Nil /\ parent # o
            THEN LET r == WalkAncestryR(P, parent, path \cup {o})
                 IN [ok |-> r.ok, seq |-> <<o>> \o r.seq]
            ELSE [ok |-> TRUE, seq |-> <<o>>]

\* Process.WalkAncestry
WalkAncestryR(P, o, path) ==
    IF o \in path THEN [ok |-> FALSE, seq |-> <<>>]
    ELSE LET here == IF P[o].isIncluded THEN <<o>> ELSE <<>>
             parent == P[o].parentProc
         IN IF parent # Nil /\ parent # o
            THEN LET r == WalkAncestryR(P, parent, path \cup {o})
                 IN [ok |-> r.ok, seq |-> here \o r.seq]
            ELSE [ok |-> TRUE, seq |-> here]

WalkAncestry(o) == WalkAncestryR(procs, o, {})

\* A successful New or Update step.
SuccessfulStep ==
    /\ phase' = "ready"
    /\ lastResult' = "ok"
    /\ (phase = "none" \/ nUpdates' = nUpdates + 1)

SuccessfulUpdateStep == phase = "ready" /\ SuccessfulStep

(***************************************************************************)
(* Walks with a handler that returns an error for the nodes in stops.      *)
(* Result: ok (the walk terminates), err (the walk returned the handler's  *)
(* error) and seq (the handler invocations).                               *)
(***************************************************************************)
RECURSIVE WalkSubtreeH(_, _, _, _), WalkChildrenH(_, _, _, _, _)

\* Process.WalkSubtree(h)
WalkSubtreeH(P, o, stops, path) ==
    IF ~P[o].isIncluded THEN [ok |-> TRUE, err |-> FALSE, seq |-> <<>>]
    ELSE IF o \in path THEN [ok |-> FALSE, err |-> FALSE, seq |-> <<>>]
    ELSE IF o \in stops THEN [ok |-> TRUE, err |-> TRUE, seq |-> <<o>>]
    ELSE LET r == WalkChildrenH(P, P[o].includedChildProcs, 1, stops, path \cup {o})
         IN [r EXCEPT !.seq = <<o>> \o @]

\* Mutant of WalkChildrenH: the loop goes on after a child's walk failed.
WalkChildrenH_noAbort(P, ch, i, stops, path) ==
    IF i > Len(ch) THEN [ok |-> TRUE, err |-> FALSE, seq |-> <<>>]
    ELSE LET r == WalkSubtreeH(P, ch[i], stops, path)
         IN IF ~r.ok THEN r
            ELSE LET r2 == WalkChildrenH(P, ch, i + 1, stops, path)
                 IN [ok |-> r2.ok, err |-> r.err \/ r2.err, seq |-> r.seq \o r2.seq]

\* The loop over p.Children() in Process.WalkSubtree, from the i-th child.
WalkChildrenH(P, ch, i, stops, path) ==
    IF i > Len(ch) THEN [ok |-> TRUE, err |-> FALSE, seq |-> <<>>]
    ELSE LET r == WalkSubtreeH(P, ch[i], stops, path)
         IN IF ~r.ok \/ r.err THEN r
            ELSE LET r2 == WalkChildrenH(P, ch, i + 1, stops, path)
                 IN [ok |-> r2.ok, err |-> r2.err, seq |-> r.seq \o r2.seq]

\* The loop of ProcTree.WalkFromRoots(roots, h), from the i-th root.
RECURSIVE WalkFromRootsH(_, _, _)
WalkFromRootsH(roots, i, stops) ==
    IF i > Len(roots) THEN [ok |-> TRUE, err |-> FALSE, seq |-> <<>>]
    ELSE LET r == WalkSubtreeH(procs, roots[i], stops, {})
         IN IF ~r.ok \/ r.err THEN r
            ELSE LET r2 == WalkFromRootsH(roots, i + 1, stops)
                 IN [ok |-> r2.ok, err |-> r2.err, seq |-> r.seq \o r2.seq]

\* ProcTree.Walk(h)
WalkH(stops) == WalkFromRootsH(Roots, 1, stops)

(***************************************************************************)
(* Claims                                                                  *)
(***************************************************************************)

\* C1 (as stated): for every pid enumerated in two consecutive successful
\* updates, PidProcess returns the same object after both.
C1_IdentityAsStated ==
    [][SuccessfulUpdateStep =>
         \A p \in DOMAIN lastEnum \cap DOMAIN lastEnum' :
            PidProcess(p) = IF p \in DOMAIN pidMap' THEN pidMap'[p] ELSE Nil]_vars

\* C1 (amended): for every pid whose record was enumerated and kept by the
\* kernel-thread filter in two consecutive successful updates, PidProcess
\* returns the same object after both.
C1_IdentityPreservation ==
    [][SuccessfulUpdateStep =>
         \A p \in Admitted(cfg, lastEnum) \cap Admitted(cfg, lastEnum') :
            /\ p \in DOMAIN pidMap /\ p \in DOMAIN pidMap'
            /\ pidMap'[p] = pidMap[p]]_vars

\* Witness of C1: after an Update, the first object New created is still
\* the live node of its pid.
C1_Witness ==
    /\ phase = "ready" /\ nUpdates >= 1 /\ lastResult = "ok"
    /\ \E p \in Admitted(cfg, lastEnum) : pidMap[p] = 1

StrictlyAscending(P, s) == \A i \in 1..(Len(s) - 1) : P[s[i]].pid < P[s[i + 1]].pid

\* C3: Processes(), Roots() and Children() of every object ever handed out
\* are strictly ascending by pid.
C3_Ordering ==
    /\ StrictlyAscending(procs, Processes)
    /\ StrictlyAscending(procs, Roots)
    /\ \A o \in Allocated : StrictlyAscending(procs, Children(o))

\* p descends from the kernel-thread pid in enumeration E (which lists it).
RECURSIVE KernelDescendant(_, _, _)
KernelDescendant(E, p, seen) ==
    /\ p \notin seen
    /\ E[p] # 0
    /\ \/ E[p] = kthreadPid /\ kthreadPid \in DOMAIN E
       \/ E[p] \in DOMAIN E /\ KernelDescendant(E, E[p], seen \cup {p})

\* C4: with includeKernelThreads = FALSE, no descendant of pid 2 in the
\* enumeration appears in Processes().
C4_KernelExclusion ==
    (phase = "ready" /\ ~cfg.includeKernelThreads) =>
        \A p \in DOMAIN lastEnum \cap DOMAIN pidMap :
            KernelDescendant(lastEnum, p, {}) => pidMap[p] \notin Range(Processes)

\* Nodes of enumerated records whose parent pid is their own pid.
SelfParentNodes ==
    {pidMap[p] : p \in {q \in DOMAIN lastEnum \cap DOMAIN pidMap : lastEnum[q] = q}}

\* C5: with a self-parent record, Update, Walk, WalkSubtree and WalkAncestry
\* from that node, and IsDescendantOf/IsAncestorOf on it, all terminate.
C5_SelfCycleTermination ==
    (\E p \in DOMAIN lastEnum : lastEnum[p] = p) =>
        /\ phase # "diverged"
        /\ phase = "ready" =>
             /\ Walk.ok
             /\ \A x \in SelfParentNodes :
                  /\ WalkSubtree(x).ok
                  /\ WalkAncestry(x).ok
                  /\ \A a \in Allocated \cup {Nil} :
                        IsDescendantOf(x, a).ok /\ IsAncestorOf(x, a).ok

\* C6: a node whose absolute parent is itself is not its own descendant and
\* has depth 0.
C6_SelfCycleValues ==
    \A o \in Allocated :
        procs[o].parentProc = o =>
            /\ IsDescendantOf(o, o) = [ok |-> TRUE, val |-> FALSE]
            /\ Depth(o) = [ok |-> TRUE, val |-> 0]

\* C7: Walk visits exactly the nodes of Processes(), each once.
C7_WalkExact ==
    phase = "ready" =>
        /\ Walk.ok
        /\ Len(Walk.seq) = Len(Processes)
        /\ Range(Walk.seq) = Range(Processes)

\* C8 (as stated): an enumerated process whose parent pid is enumerated and
\* included has that parent as Parent() and is among its Children().
C8_ParentChildAsStated ==
    phase = "ready" =>
      \A c \in DOMAIN lastEnum :
        LET pp == lastEnum[c]
        IN (pp \in DOMAIN lastEnum /\ pp \in DOMAIN pidMap /\ procs[pidMap[pp]].isIncluded) =>
             /\ c \in DOMAIN pidMap
             /\ Parent(pidMap[c]) = pidMap[pp]
             /\ pidMap[c] \in Range(Children(pidMap[pp]))

\* C8 (amended): a process kept by the last update whose parent pid is a
\* different process also kept by it and included has that parent as
\* Parent(); when the child is included too, it is among the parent's
\* Children().
C8_ParentChild ==
    phase = "ready" =>
      \A c \in Admitted(cfg, lastEnum) :
        LET pp == lastEnum[c]
        IN (pp \in Admitted(cfg, lastEnum) /\ pp # c /\ procs[pidMap[pp]].isIncluded) =>
             /\ Parent(pidMap[c]) = pidMap[pp]
             /\ procs[pidMap[c]].isIncluded => pidMap[c] \in Range(Children(pidMap[pp]))

\* Witness of C8: an excluded child of an included parent, both kept by the
\* last update, has that parent as Parent(), in an update whose
\* enumeration had a record dropped as a kernel thread or had pid 2 kept.
C8_Witness ==
    /\ phase = "ready"
    /\ \E c \in Admitted(cfg, lastEnum) :
         /\ lastEnum[c] \in Admitted(cfg, lastEnum) /\ lastEnum[c] # c
         /\ ~procs[pidMap[c]].isIncluded /\ procs[pidMap[lastEnum[c]]].isIncluded
         /\ Parent(pidMap[c]) = pidMap[lastEnum[c]]
    /\ \E p \in DOMAIN lastEnum : p = kthreadPid \/ lastEnum[p] = kthreadPid

\* The enumeration of the round-trip scenario.
RoundTripEnum == (1 :> 0) @@ (100 :> 1) @@ (200 :> 100)

\* C9: after New with the round-trip enumeration and the default
\* configuration, Roots() = [node 1], node 100's parent is node 1, its
\* children are [node 200], and node 200 has depth 2.
C9_RoundTrip ==
    (phase = "ready" /\ nUpdates = 0 /\ lastEnum = RoundTripEnum) =>
        /\ Roots = <<PidProcess(1)>>
        /\ Parent(PidProcess(100)) = PidProcess(1)
        /\ Children(PidProcess(100)) = <<PidProcess(200)>>
        /\ Depth(PidProcess(200)) = [ok |-> TRUE, val |-> 2]

C9_Witness == phase = "ready" /\ nUpdates = 0 /\ lastEnum = RoundTripEnum

\* Objects reachable from o through Children().
RECURSIVE IncludedReach(_, _)
IncludedReach(o, seen) ==
    IF o \in seen THEN {}
    ELSE {o} \cup UNION {IncludedReach(Children(o)[i], seen \cup {o}) : i \in 1..Len(Children(o))}

\* Enumeration E has the chain a1 -> a2 -> r with a1 parentless.
AncestorChain(E, a1, a2, r) ==
    /\ {a1, a2, r} \subseteq DOMAIN E /\ Cardinality({a1, a2, r}) = 3
    /\ E[r] = a2 /\ E[a2] = a1 /\ E[a1] = 0

\* C10: for the configured root r with ancestor chain a1 -> a2 -> r, Roots()
\* contains r without WithRootAncestors, and contains a1 (not r) with r
\* beneath a1 through Children() with it.
C10_AncestorToggle ==
    (phase = "ready" /\ Len(cfg.rootPids) = 1) =>
      \A a1, a2 \in DOMAIN lastEnum :
        LET r == cfg.rootPids[1]
        IN AncestorChain(lastEnum, a1, a2, r) =>
             IF cfg.includeRootAncestors
             THEN /\ pidMap[a1] \in Range(Roots)
                  /\ pidMap[r] \notin Range(Roots)
                  /\ pidMap[r] \in IncludedReach(pidMap[a1], {})
             ELSE pidMap[r] \in Range(Roots)

\* A configured root pid has no node after the update's map is built from
\* enumeration E (absent, or its record dropped by the kernel-thread filter).
RootMissing(C, E) == \E i \in 1..Len(C.rootPids) : C.rootPids[i] \notin Admitted(C, E)

\* C11: when a configured root pid is absent from New's enumeration or its
\* record is skipped as a kernel thread, New returns the missing-root error
\* and no session; otherwise it does not return that error.
C11_MissingRoot ==
    [][(phase = "none" /\ lastResult' # "enumErr") =>
         IF RootMissing(cfg, lastEnum')
         THEN lastResult' = "rootErr" /\ phase' = "failed"
         ELSE lastResult' # "rootErr"]_vars

\* Witness of C11: New failed because the configured root's record was
\* enumerated but dropped by the kernel-thread filter.
C11_Witness ==
    /\ phase = "failed" /\ lastResult = "rootErr"
    /\ \E i \in 1..Len(cfg.rootPids) : cfg.rootPids[i] \in DOMAIN lastEnum

\* C12: when the enumeration fails during Update, Update returns that error
\* and the session (map, node fields, lists) is unchanged.
C12_EnumFailureUnchanged ==
    [][(phase = "ready" /\ lastResult' = "enumErr") =>
         UNCHANGED <<phase, pidMap, procs, nextObj, absProcs, absRootProcs, cfgRootProcs,
                     cfgRootsSet, includedProcs, includedRootProcs>>]_vars

\* Witness of C12: a failed Update on a session that holds nodes.
C12_Witness ==
    /\ phase = "ready" /\ lastResult = "enumErr" /\ nUpdates >= 1
    /\ DOMAIN pidMap # {}

\* The walk r, made with a handler failing on stops, stopped at the first
\* failing invocation of the unaborted walk full.
AbortedAtFirstStop(r, full, stops) ==
    /\ (\E i \in 1..Len(r.seq) : r.seq[i] \in stops) =>
          /\ r.ok /\ r.err
          /\ r.seq[Len(r.seq)] \in stops
          /\ \A i \in 1..(Len(r.seq) - 1) : r.seq[i] \notin stops
    /\ r.err => r.seq # <<>> /\ r.seq[Len(r.seq)] \in stops
    /\ full.ok =>
         IF \E i \in 1..Len(full.seq) : full.seq[i] \in stops
         THEN LET k == CHOOSE i \in 1..Len(full.seq) :
                          full.seq[i] \in stops /\ \A j \in 1..(i - 1) : full.seq[j] \notin stops
              IN r.err /\ r.seq = SubSeq(full.seq, 1, k)
         ELSE ~r.err /\ r.seq = full.seq

\* C13: when the handler returns an error for some node during Walk,
\* WalkFromRoots or WalkSubtree, the walk returns that error at once and
\* invokes the handler for no further node (handlers failing on up to two
\* nodes).
C13_WalkAbort ==
    phase = "ready" =>
      LET fullWalk == Walk
          fullFromProcs == WalkFromRoots(Processes)
          fullSub == Force([o \in Allocated |-> WalkSubtree(o)])
      IN \A stops \in {S \in SUBSET Allocated : Cardinality(S) <= 2} :
           /\ AbortedAtFirstStop(WalkH(stops), fullWalk, stops)
           /\ AbortedAtFirstStop(WalkFromRootsH(Processes, 1, stops), fullFromProcs, stops)
           /\ \A o \in Allocated :
                AbortedAtFirstStop(WalkSubtreeH(procs, o, stops, {}), fullSub[o], stops)

\* Witness of C13: Walk is aborted after two invocations while the
\* unaborted walk visits more nodes.
C13_Witness ==
    /\ phase = "ready"
    /\ \E o \in Allocated :
         LET r == WalkH({o}) IN r.err /\ Len(r.seq) >= 2 /\ Walk.ok /\ Len(Walk.seq) > Len(r.seq)

\* C14: every read of node state by a public operation holds the session
\* mutex, so no public operation (WalkSubtree's read of isIncluded
\* included) reads node state while a concurrent Update holds the mutex.
C14_LockDiscipline == ~raceRead

\* C15: a locked query running concurrently with Update observes the
\* complete state before the update (while Update holds the mutex) or the
\* complete state after it, never a partly rebuilt one.
C15_UpdateAtomicity ==
    [][lastQuery' # lastQuery =>
         lastQuery' = IF lockOwner = "update" THEN preView ELSE View]_vars

\* Witness of C15: a query observed the nodes rebuilt by a completed
\* Update.
C15_Witness ==
    /\ lastQuery = View /\ nUpdates >= 1 /\ lastResult = "ok" /\ lockOwner = "none"
    /\ \E o \in DOMAIN procs : procs[o].includedChildProcs # <<>>

MaxOf(S) == CHOOSE x \in S : \A y \in S : y <= x

\* A boolean field after opts, from seed value v: the last of the options
\* on/off that set it, else v.
LastBool(v, opts, on, off) ==
    LET S == {i \in 1..Len(opts) : opts[i].k \in {on, off}}
    IN IF S = {} THEN v ELSE opts[MaxOf(S)].k = on

\* The root pids after opts, from seed r: WithoutRootPid clears, WithRootPid
\* appends.
RootsAfter(r, opts) ==
    LET C == {i \in 1..Len(opts) : opts[i].k = "WithoutRootPid"}
        start == IF C = {} THEN 0 ELSE MaxOf(C)
        base == IF C = {} THEN r ELSE <<>>
        adds == SelectSeq(SubSeq(opts, start + 1, Len(opts)), LAMBDA o : o.k = "WithRootPid")
    IN base \o [j \in 1..Len(adds) |-> adds[j].pid]

\* The Config after opts without WithConfig, from seed.
ExpectedFields(seed, opts) ==
    [includeKernelThreads |->
        LastBool(seed.includeKernelThreads, opts, "WithKernelThreads", "WithoutKernelThreads"),
     includeRootAncestors |->
        LastBool(seed.includeRootAncestors, opts, "WithRootAncestors", "WithoutRootAncestors"),
     rootPids |-> RootsAfter(seed.rootPids, opts)]

\* The Config after opts, from seed: the last WithConfig(other) replaces
\* every field with other's, and the options after it apply.
ExpectedConfig(seed, opts) ==
    LET W == {i \in 1..Len(opts) : opts[i].k = "WithConfig"}
    IN IF W = {} THEN ExpectedFields(seed, opts)
       ELSE ExpectedFields(opts[MaxOf(W)].other, SubSeq(opts, MaxOf(W) + 1, Len(opts)))

ConfigStep == Len(configs') = Len(configs) + 1

\* C16: NewConfig/Refine apply the options in call order: the last option
\* setting a boolean field wins, WithRootPid appends, WithoutRootPid clears;
\* Refine starts from all of the original's values; the Configs built
\* before are unchanged.
C16_ConfigBuilding ==
    [][ConfigStep =>
         LET seed == IF cfgOp'.kind = "Refine" THEN configs[cfgOp'.src] ELSE DefaultConfig
         IN /\ configs'[Len(configs')] = ExpectedConfig(seed, cfgOp'.opts)
            /\ \A i \in 1..Len(configs) : configs'[i] = configs[i]]_vars

\* Witness of C16: Refine of a non-default Config with two options.
C16_Witness ==
    /\ cfgOp.kind = "Refine" /\ Len(cfgOp.opts) = 2
    /\ configs[cfgOp.src] # DefaultConfig
    /\ configs[Len(configs)] # configs[cfgOp.src]

\* Permutations of 1..n.
Perms(n) == {f \in [1..n -> 1..n] : \A i, j \in 1..n : i # j => f[i] # f[j]}

Permute(opts, f) == [i \in 1..Len(opts) |-> opts[f[i]]]

\* The Config the last NewConfig/Refine call builds from opts instead.
RebuiltWith(opts) ==
    IF cfgOp'.kind = "Refine" THEN Refine(configs[cfgOp'.src], opts) ELSE NewConfig(opts)

\* The fields of Config an option sets.
OptFields(o) ==
    CASE o.k \in {"WithKernelThreads", "WithoutKernelThreads"} -> {"includeKernelThreads"}
      [] o.k \in {"WithRootAncestors", "WithoutRootAncestors"} -> {"includeRootAncestors"}
      [] o.k \in {"WithRootPid", "WithoutRootPid"} -> {"rootPids"}
      [] o.k = "WithConfig" -> {"includeKernelThreads", "includeRootAncestors", "rootPids"}

\* f keeps the relative order of any two options that set a common field.
KeepsFieldOrder(opts, f) ==
    \A i, j \in 1..Len(opts) :
        (i < j /\ OptFields(opts[f[i]]) \cap OptFields(opts[f[j]]) # {}) => f[i] < f[j]

\* C17 (as stated): every permutation of the options yields an equal Config.
C17_OrderIndependentAsStated ==
    [][ConfigStep =>
         \A f \in Perms(Len(cfgOp'.opts)) :
            RebuiltWith(Permute(cfgOp'.opts, f)) = configs'[Len(configs')]]_vars

\* C17 (amended): every permutation of the options that keeps the relative
\* order of any two options setting a common field (WithConfig sets all of
\* them) yields an equal Config.
C17_OrderIndependence ==
    [][ConfigStep =>
         \A f \in Perms(Len(cfgOp'.opts)) :
            KeepsFieldOrder(cfgOp'.opts, f) =>
               RebuiltWith(Permute(cfgOp'.opts, f)) = configs'[Len(configs')]]_vars

\* Witness of C17: the last call had WithConfig followed by two options
\* setting different fields.
C17_Witness ==
    /\ cfgOp.kind # "none" /\ Len(cfgOp.opts) = 3
    /\ cfgOp.opts[1].k = "WithConfig"
    /\ OptFields(cfgOp.opts[2]) \cap OptFields(cfgOp.opts[3]) = {}
    /\ configs[Len(configs)] # cfgOp.opts[1].other

\* C18: after every successful update, each node of the map has as absolute
\* parent the node of its last-known parent pid, or none when that pid is 0
\* or not in the map; such a parentless node has Parent() = nil and is in
\* Roots() when included.
C18_AbsParent ==
    phase = "ready" =>
      \A p \in DOMAIN pidMap :
        LET n == pidMap[p]
        IN /\ procs[n].parentProc = ResolvedParent(procs, pidMap, n)
           /\ (ResolvedParent(procs, pidMap, n) = Nil /\ procs[n].isIncluded) =>
                 Parent(n) = Nil /\ n \in Range(Roots)

\* C19: after every successful update, every element of a node's
\* Children() is an included node that is one of the node's absolute
\* children.
C19_IncludedChildrenSubset ==
    phase = "ready" =>
      \A n \in Range(pidMap) :
        \A i \in 1..Len(Children(n)) :
          LET c == Children(n)[i]
          IN /\ procs[c].isIncluded
             /\ c \in Range(procs[n].absChildProcs)

\* Node o descends from node r through the parents its last-known parent
\* pids resolve to in the current map.
RECURSIVE AbsDescends(_, _, _)
AbsDescends(o, r, seen) ==
    LET pp == ResolvedParent(procs, pidMap, o)
    IN /\ o \notin seen
       /\ pp # Nil
       /\ pp = r \/ AbsDescends(pp, r, seen \cup {o})

\* C20: with configured roots and includeRootAncestors = FALSE, after every
\* successful update every node of Processes() is a configured root node or
\* an absolute descendant of one in the current snapshot.
C20_FixedRootInclusion ==
    (phase = "ready" /\ Len(cfg.rootPids) > 0 /\ ~cfg.includeRootAncestors) =>
      \A o \in Range(Processes) :
        \E i \in 1..Len(cfgRootProcs) :
          o = cfgRootProcs[i] \/ AbsDescends(o, cfgRootProcs[i], {})

\* C21: without configured roots, after every successful update every node
\* of the map, unpruned tombstones included, is in Processes(); under the
\* default kernel-thread policy no node of the map has pid 2 or parent pid 2.
C21_AllIncluded ==
    (phase = "ready" /\ Len(cfg.rootPids) = 0) =>
      /\ Range(Processes) = Range(pidMap)
      /\ ~cfg.includeKernelThreads =>
            \A p \in DOMAIN pidMap : p # kthreadPid /\ procs[pidMap[p]].ppid # kthreadPid

\* Witness of C21: under WithKernelThreads() without roots, pid 2 and a
\* child of it are in the map next to a tombstone after an update.
C21_Witness ==
    /\ phase = "ready" /\ nUpdates = 1 /\ lastResult = "ok"
    /\ Len(cfg.rootPids) = 0 /\ cfg.includeKernelThreads
    /\ \E p \in DOMAIN pidMap : procs[pidMap[p]].isTombstone
    /\ kthreadPid \in DOMAIN pidMap
    /\ \E p \in DOMAIN pidMap : procs[pidMap[p]].parentProc = pidMap[kthreadPid]

\* C22: once a node's OrigParent() is non-nil it never changes, and it is
\* the first non-nil absolute parent the node was assigned.
C22_OrigParentSticky ==
    [][\A o \in DOMAIN procs' :
         LET oldOrig == IF o \in DOMAIN procs THEN procs[o].origParentProc ELSE Nil
             oldParent == IF o \in DOMAIN procs THEN procs[o].parentProc ELSE Nil
         IN /\ oldOrig # Nil => procs'[o].origParentProc = oldOrig
            /\ (oldOrig = Nil /\ procs'[o].parentProc # oldParent) =>
                  procs'[o].origParentProc = procs'[o].parentProc
            /\ oldOrig = Nil /\ procs'[o].parentProc = oldParent =>
                  procs'[o].origParentProc = Nil]_vars

\* Witness of C22: a node re-parented after discovery keeps its first
\* parent as OrigParent().
C22_Witness ==
    /\ phase = "ready"
    /\ \E o \in DOMAIN procs :
         /\ procs[o].origParentProc # Nil /\ procs[o].parentProc # Nil
         /\ procs[o].origParentProc # procs[o].parentProc

\* C23: Depth(n) is 0 when n.Parent() is nil and 1 + Depth(n.Parent())
\* otherwise (the two sides terminate together and then agree).
C23_DepthRecursion ==
    \A n \in Allocated :
      LET d == Depth(n)
      IN IF Parent(n) = Nil
         THEN d = [ok |-> TRUE, val |-> 0]
         ELSE /\ d.ok = Depth(Parent(n)).ok
              /\ d.ok => d.val = 1 + Depth(Parent(n)).val

\* Witness of C23: a node of depth 1 whose included parent has itself as
\* absolute parent.
C23_Witness ==
    \E n \in Allocated :
      /\ Parent(n) # Nil /\ Depth(n) = [ok |-> TRUE, val |-> 1]
      /\ procs[Parent(n)].parentProc = Parent(n)

\* Following absolute parents from o never revisits an object except through
\* a self-parent.
RECURSIVE ChainAcyclic(_, _)
ChainAcyclic(o, seen) ==
    LET p == procs[o].parentProc
    IN /\ o \notin seen
       /\ (p # Nil /\ p # o) => ChainAcyclic(p, seen \cup {o})

\* a is reached by following d's absolute parents, stopping at a self-parent.
RECURSIVE ChainReaches(_, _)
ChainReaches(d, a) ==
    LET p == procs[d].parentProc
    IN p # Nil /\ p # d /\ (p = a \/ ChainReaches(p, a))

\* C24: when the absolute tree is acyclic apart from self-parents,
\* d.IsDescendantOf(a) is true iff a is reached by following d's absolute
\* parent chain (stopping at a self-parent), and a.IsAncestorOf(d) equals
\* d.IsDescendantOf(a).
C24_DescendantTest ==
    (\A o \in Allocated : ChainAcyclic(o, {})) =>
      \A a, d \in Allocated :
        /\ IsDescendantOf(d, a) = [ok |-> TRUE, val |-> ChainReaches(d, a)]
        /\ IsAncestorOf(a, d) = IsDescendantOf(d, a)

\* o followed by its absolute parents, up to a node with no parent or a
\* self-parent.
RECURSIVE ParentChain(_)
ParentChain(o) ==
    LET p == procs[o].parentProc
    IN IF p = Nil \/ p = o THEN <<o>> ELSE <<o>> \o ParentChain(p)

\* C25: WalkAncestry from n invokes the handler exactly for the included
\* nodes of n's absolute parent chain, n first and then upward, climbing
\* past excluded nodes and stopping at a node with no parent or a
\* self-parent.
C25_WalkAncestry ==
    \A n \in Allocated :
      ChainAcyclic(n, {}) =>
        WalkAncestry(n) = [ok |-> TRUE,
                           seq |-> SelectSeq(ParentChain(n), LAMBDA x : procs[x].isIncluded)]

\* Witness of C25: WalkAncestry climbs past an excluded node to an included
\* one.
C25_Witness ==
    \E n \in Allocated :
      /\ ChainAcyclic(n, {})
      /\ \E i, j \in 1..Len(ParentChain(n)) :
           /\ i < j
           /\ ~procs[ParentChain(n)[i]].isIncluded
           /\ procs[ParentChain(n)[j]].isIncluded

\* C26: WalkSubtree on a node that is not included invokes the handler zero
\* times, even when some of its absolute descendants are included.
C26_ExcludedSubtree ==
    \A o \in Allocated :
      ~procs[o].isIncluded => WalkSubtree(o) = [ok |-> TRUE, seq |-> <<>>]

\* Witness of C26: an excluded node with an included absolute child.
C26_Witness ==
    \E o \in Allocated :
      /\ ~procs[o].isIncluded
      /\ \E i \in 1..Len(procs[o].absChildProcs) : procs[procs[o].absChildProcs[i]].isIncluded

\* C27: after every successful update, a node of Processes() is in Roots()
\* iff its Parent() is nil.
C27_RootsParent ==
    phase = "ready" =>
      \A i \in 1..Len(Processes) :
        (Processes[i] \in Range(Roots)) <=> (Parent(Processes[i]) = Nil)

\* Witness of C27: a root whose absolute parent is another node, one that
\* is not included.
C27_Witness ==
    /\ phase = "ready"
    /\ \E i \in 1..Len(Roots) :
         LET pp == procs[Roots[i]].parentProc
         IN pp # Nil /\ pp # Roots[i] /\ ~procs[pp].isIncluded

\* C28: with configured roots, after every successful update in which a
\* configured root pid is enumerated, PidProcess(rootPid) is in Processes().
C28_RootsEffective ==
    (phase = "ready" /\ Len(cfg.rootPids) > 0) =>
      \A i \in 1..Len(cfg.rootPids) :
        cfg.rootPids[i] \in DOMAIN lastEnum =>
          PidProcess(cfg.rootPids[i]) \in Range(Processes)

\* C29: after every successful update, Roots() is a subset of Processes()
\* and every node of Processes() is PidProcess of its pid (no pruned node in
\* either list).
C29_ViewContainment ==
    phase = "ready" =>
      /\ Range(Roots) \subseteq Range(Processes)
      /\ \A i \in 1..Len(Processes) : PidProcess(procs[Processes[i]].pid) = Processes[i]

\* Witness of C29: a pruning Update removed a node while others remain,
\* some of them not included.
C29_Witness ==
    /\ phase = "ready" /\ lastPrune /\ lastResult = "ok"
    /\ \E o \in Allocated : ~InMap(procs, pidMap, o)
    /\ \E o \in Range(pidMap) : ~procs[o].isIncluded
    /\ Processes # <<>> /\ Roots # <<>>

\* C30: the mutex is not held while a walk invokes its handler, so a handler
\* that calls a public operation (which takes the mutex) always completes.
C30_HandlerNoDeadlock ==
    (walkerPc \in {"handlerS", "handlerA"}) ~> (walkerPc \notin {"handlerS", "handlerA"})

\* Witness of C30: a WalkAncestry handler waits for an Update holding the
\* mutex.
C30_Witness == walkerPc = "handlerA" /\ lockOwner = "update"

(***************************************************************************)
(* Specifications                                                          *)
(***************************************************************************)
Universe == 1..NumPids

\* Default configuration: NewConfig().
Init == InitFor({DefaultConfig})
Next == NextFor(Enums(Universe), MaxUpdates)
Spec == Init /\ [][Next]_vars

\* Default configuration, more updates.
SpecDyn == Init /\ [][NextFor(Enums(Universe), MaxUpdatesDyn)]_vars

\* NewConfig(WithKernelThreads())
InitK == InitFor({[DefaultConfig EXCEPT !.includeKernelThreads = TRUE]})
SpecK == InitK /\ [][Next]_vars

\* NewConfig(WithRootPid(RootPidR)) with and without WithRootAncestors(),
\* over pids other than the kernel-thread pid.
UniverseR == {1} \cup 3..(NumPids + 1)
RootPidR == NumPids + 1
InitR == InitFor({[DefaultConfig EXCEPT !.rootPids = <<RootPidR>>,
                                        !.includeRootAncestors = anc] : anc \in BOOLEAN})
SpecR == InitR /\ [][NextFor(Enums(UniverseR), MaxUpdates)]_vars

\* Default configuration over the pids of the round-trip scenario, with
\* enumerations in which every parent pid is below its child's pid.
Universe9 == {1, 100, 200}
Enums9 == {E \in Enums(Universe9) : \A p \in DOMAIN E : E[p] < p}
Spec9 == Init /\ [][NextFor(Enums9, MaxUpdates)]_vars

\* Configured roots over pids including the kernel-thread pid:
\* NewConfig(WithRootPid(..)...) with and without WithKernelThreads().
UniverseRK == {1, kthreadPid, RootPidR}
InitRK == InitFor({[DefaultConfig EXCEPT !.rootPids = rp, !.includeKernelThreads = kt] :
                     rp \in {<<RootPidR>>, <<kthreadPid>>, <<1, RootPidR>>}, kt \in BOOLEAN})
SpecRK == InitRK /\ [][NextFor(Enums(UniverseRK), MaxUpdates)]_vars

\* Default configuration over pids other than the kernel-thread pid, with
\* enumerations in which every parent pid is below its child's pid.
EnumsW == {E \in Enums(UniverseR) : \A p \in DOMAIN E : E[p] < p}
SpecW == Init /\ [][NextFor(EnumsW, MaxUpdates)]_vars

\* Default configuration with Update's mutex held across steps, a concurrent
\* WalkSubtree and concurrent locked queries, over the enumerations of SpecW.
NextLockFor(ES) ==
    \/ New(ES) \/ NewEnumFail
    \/ UpdateAcquire(MaxUpdates) \/ UpdateTombstone
    \/ UpdateRelease(ES, MaxUpdates)
    \/ WalkSubtreeReadIncluded \/ WalkSubtreeChildren \/ LockedQuery
    \/ HandlerCall \/ WalkAncestryLock \/ WalkAncestryUnlock
NextLock == NextLockFor(EnumsW)
SpecLock == Init /\ [][NextLock]_vars

\* NewConfig and Refine over option lists of up to MaxOpts options.
OptPids == {1, 2}
OptOthers == {DefaultConfig,
              [includeKernelThreads |-> TRUE, includeRootAncestors |-> TRUE, rootPids |-> <<1>>]}
AllOpts == {Opt(k, 0, DefaultConfig) : k \in {"WithKernelThreads", "WithoutKernelThreads",
                                               "WithRootAncestors", "WithoutRootAncestors",
                                               "WithoutRootPid"}}
           \cup {Opt("WithRootPid", p, DefaultConfig) : p \in OptPids}
           \cup {WithConfigOpt(c) : c \in OptOthers}
OptLists == UNION {[1..n -> AllOpts] : n \in 0..MaxOpts}
NextCfg == NewConfigOp(OptLists, MaxConfigs) \/ RefineOp(OptLists, MaxConfigs)
SpecCfg == Init /\ [][NextCfg]_vars

\* x := NewConfig(WithConfig(other)) for each other of OptOthers, then one
\* NewConfig or x.Refine call with up to MaxOptsOrd options.
SeedLists == {<<WithConfigOpt(c)>> : c \in OptOthers}
OptListsOrd == UNION {[1..n -> AllOpts] : n \in 0..MaxOptsOrd}
NextOrd ==
    \/ NewConfigOp(SeedLists, 1)
    \/ Len(configs) = 1 /\ NewConfigOp(OptListsOrd, 2)
    \/ RefineOp(OptListsOrd, 2)
SpecOrd == Init /\ [][NextOrd]_vars

\* NewConfig(WithRootPid(RootPidW)) with and without WithRootAncestors(),
\* over the enumerations of SpecW; the root has both children and parents.
RootPidW == 3
InitRW == InitFor({[DefaultConfig EXCEPT !.rootPids = <<RootPidW>>,
                                         !.includeRootAncestors = anc] : anc \in BOOLEAN})
SpecRW == InitRW /\ [][NextFor(EnumsW, MaxUpdates)]_vars

\* The configurations of SpecRW over enumerations in which no parent pid is
\* above its child's pid (self-parents included).
EnumsWS == {E \in Enums(UniverseR) : \A p \in DOMAIN E : E[p] <= p}
SpecRWS == InitRW /\ [][NextFor(EnumsWS, MaxUpdates)]_vars

\* The configurations of SpecR over the enumerations of SpecW, more updates.
SpecRDyn == InitR /\ [][NextFor(EnumsW, MaxUpdatesDyn)]_vars

\* Default configuration over the pids of Spec, with enumerations in which
\* every parent pid is below its child's pid, more updates.
EnumsF == {E \in Enums(Universe) : \A p \in DOMAIN E : E[p] < p}
SpecFDyn == Init /\ [][NextFor(EnumsF, MaxUpdatesDyn)]_vars

\* NewConfig() and NewConfig(WithKernelThreads()), and NewConfig(WithRootPid(
\* RootPidM)) with and without WithKernelThreads() and WithRootAncestors(),
\* over the pids of Spec (the kernel-thread pid included), with enumerations
\* in which no parent pid is above its child's pid (self-parents included).
RootPidM == 3
ConfigsM == {DefaultConfig, [DefaultConfig EXCEPT !.includeKernelThreads = TRUE]}
            \cup {[DefaultConfig EXCEPT !.rootPids = <<RootPidM>>,
                                        !.includeKernelThreads = kt,
                                        !.includeRootAncestors = anc] : kt, anc \in BOOLEAN}
InitM == InitFor(ConfigsM)
EnumsS == {E \in Enums(Universe) : \A p \in DOMAIN E : E[p] <= p}
SpecM == InitM /\ [][NextFor(EnumsS, MaxUpdates)]_vars

\* ProcTree.Update, line 259: the deferred pt.punlock() releases the mutex
\* the Update goroutine holds.
UpdateReleasesMutex == lockOwner = "update" /\ lockOwner' = "none"

\* The steps of SpecLock over enumerations of the pids LivePids, where
\* Update, the walker and the handler's call progress when they can.
LivePids == {1, 3}
EnumsL == {E \in EnumsW : DOMAIN E \subseteq LivePids}
SpecLockLive ==
    /\ Init /\ [][NextLockFor(EnumsL)]_vars
    /\ WF_vars(UpdateTombstone) /\ WF_lockOwner(UpdateReleasesMutex)
    /\ WF_vars(HandlerCall) /\ WF_vars(WalkSubtreeChildren)
    /\ WF_vars(WalkAncestryUnlock)

====
